---- MODULE Spec2Model ----
(***************************************************************************)
(* AuditLens AI (Invoice-OCR-AI-ML): the React dashboard (App,             *)
(* RiskScorecard) and the audit engine behind POST /audit.                 *)
(*                                                                         *)
(* The repository holds two revisions of the App component:                *)
(*   frontend/src/App.jsx   - appends every optional field, keeps result   *)
(*   unnamed/part_000       - trims, omits blank fields, clears result     *)
(* The variable build says which of the two files is the running App.      *)
(***************************************************************************)
EXTENDS Integers, Sequences, FiniteSets, TLC

VARIABLES
    build,          \* which revision of App is mounted
    file,           \* App: useState(null)
    gstin,          \* App: useState('')
    hsn,            \* App: useState('')
    taxRate,        \* App: useState('')
    loading,        \* App: useState(false)
    error,          \* App: useState('')
    result,         \* App: useState(null); the prop of RiskScorecard
    requests,       \* POST /audit requests in flight, each with its await position
    filterCategory, \* RiskScorecard: useState('all')
    expandedCheck,  \* RiskScorecard: useState(null)
    bundle,         \* audit engine: the Evidence Bundle of the run
    faults,         \* audit engine: the controls whose evaluator raises in this run
    results,        \* audit engine: the Control Results collected so far
    auditRecord,    \* audit engine: the Audit Record, once composed
    store,          \* History Store: the records in audit_history.json
    appendPc,       \* History Store: position of each concurrent append call
    snapshot,       \* History Store: the list each append call has read
    spreadsheetId,  \* GoogleSheetsPanel: useState('')
    status,         \* GoogleSheetsPanel: useState(null)
    message,        \* GoogleSheetsPanel: useState('')
    sheetsLoading,  \* GoogleSheetsPanel: loading, useState(false)
    statusFetch,    \* GoogleSheetsPanel: the /sheets/status promise chain of useEffect
    sheetsRequests  \* GoogleSheetsPanel: configure / export calls in flight

engineVars == <<bundle, faults, results, auditRecord>>

historyVars == <<store, appendPc, snapshot>>

sheetsVars == <<spreadsheetId, status, message, sheetsLoading, statusFetch, sheetsRequests>>

vars == <<build, file, gstin, hsn, taxRate, loading, error, result, requests,
          filterCategory, expandedCheck, engineVars, historyVars, sheetsVars>>

\* the state outside App
notApp == <<filterCategory, expandedCheck, engineVars, historyVars, sheetsVars>>

\* the state outside RiskScorecard (its prop result is App's state)
notScorecard == <<build, file, gstin, hsn, taxRate, loading, error, requests,
                  engineVars, historyVars, sheetsVars>>

\* the state outside the audit engine
notEngine == <<build, file, gstin, hsn, taxRate, loading, error, result, requests,
               filterCategory, expandedCheck, historyVars, sheetsVars>>

\* the state outside the History Store
notHistory == <<build, file, gstin, hsn, taxRate, loading, error, result, requests,
                filterCategory, expandedCheck, engineVars, sheetsVars>>

\* the state outside GoogleSheetsPanel
notSheets == <<build, file, gstin, hsn, taxRate, loading, error, result, requests,
               filterCategory, expandedCheck, engineVars, historyVars>>

----------------------------------------------------------------------------
(* Bounds *)

\* longest text typed into the GSTIN and HSN/SAC inputs
MaxLen == 1

----------------------------------------------------------------------------
(* Values *)

NULL == [null |-> TRUE]

Builds == {"App.jsx", "part_000"}

\* characters typed into a text input: one whitespace, one non-whitespace
Chars == {" ", "A"}

RECURSIVE SeqsUpTo(_, _)
SeqsUpTo(S, n) ==
    IF n = 0 THEN {<<>>}
    ELSE LET shorter == SeqsUpTo(S, n - 1)
         IN  shorter \cup {Append(s, c) : s \in {t \in shorter : Len(t) = n - 1}, c \in S}

\* values of <input value={gstin}> and <input value={hsn}>
TextInputs == SeqsUpTo(Chars, MaxLen)

\* values of <input type="number">: the browser hands over '' or a number
NumberInputs == {<<>>, <<"1">>}

\* files offered by the drop zone and the file input
Files == {[name |-> "a.pdf"], [name |-> "b.png"]}

\* String.prototype.trim
RECURSIVE TrimStart(_)
TrimStart(s) ==
    IF s # <<>> /\ Head(s) = " " THEN TrimStart(Tail(s)) ELSE s

RECURSIVE TrimEnd(_)
TrimEnd(s) ==
    IF s # <<>> /\ s[Len(s)] = " " THEN TrimEnd(SubSeq(s, 1, Len(s) - 1)) ELSE s

trim(s) == TrimEnd(TrimStart(s))

\* FormData.append(name, value): entries are kept in append order
FormDataAppend(fd, name, value) == Append(fd, [name |-> name, value |-> value])

FormDataHas(fd, name) == \E i \in DOMAIN fd : fd[i].name = name

PleaseUpload == "Please upload a file before auditing."

\* bodies of a non-OK response (response.text())
Details == {"", "Unsupported file"}

\* messages of a rejected fetch / body read
NetworkErrors == {"Failed to fetch"}
ParseErrors == {"Unexpected end of JSON input"}

\* bodies of an OK response (response.json())
AuditResponses ==
    { [composite_risk_score |-> 63, checks |-> <<>>],
      [composite_risk_score |-> 100, checks |-> <<>>] }

\* RiskScorecard: expandedCheck is null, no row is expanded
NoCheck == 0

\* showSheets is false: no GoogleSheetsPanel is mounted
sheetsHidden ==
    /\ spreadsheetId = <<>>
    /\ status = "null"
    /\ message = <<>>
    /\ sheetsLoading = FALSE
    /\ statusFetch = "none"
    /\ sheetsRequests = <<>>

----------------------------------------------------------------------------
(* App *)

\* formData as built by frontend/src/App.jsx
formData_AppJsx ==
    LET f0 == FormDataAppend(<<>>, "file", file)
        f1 == FormDataAppend(f0, "gstin", gstin)
        f2 == FormDataAppend(f1, "hsn_or_sac", hsn)
    IN  FormDataAppend(f2, "claimed_tax_rate", taxRate)

\* formData as built by unnamed/part_000
formData_part000 ==
    LET f0 == FormDataAppend(<<>>, "file", file)
        f1 == IF trim(gstin) # <<>> THEN FormDataAppend(f0, "gstin", trim(gstin)) ELSE f0
        f2 == IF trim(hsn) # <<>> THEN FormDataAppend(f1, "hsn_or_sac", trim(hsn)) ELSE f1
    IN  IF trim(taxRate) # <<>> THEN FormDataAppend(f2, "claimed_tax_rate", trim(taxRate)) ELSE f2

\* a Run Audit button that is never disabled
RunAuditEnabled_Always == TRUE

\* <button onClick={runAudit} disabled={loading}>
RunAuditEnabled == ~loading

handleDrop ==
    \E droppedFile \in Files \cup {NULL} :
        /\ IF droppedFile # NULL
           THEN /\ file' = droppedFile
                /\ error' = IF build = "part_000" THEN "" ELSE error
           ELSE UNCHANGED <<file, error>>
        /\ UNCHANGED <<build, gstin, hsn, taxRate, loading, result, requests, notApp>>

\* onChange of the file input: e.target.files?.[0] ?? null
onFileChange ==
    \E f \in Files \cup {NULL} :
        /\ file' = f
        /\ UNCHANGED <<build, gstin, hsn, taxRate, loading, error, result, requests, notApp>>

setGstin ==
    \E v \in TextInputs :
        /\ gstin' = v
        /\ UNCHANGED <<build, file, hsn, taxRate, loading, error, result, requests, notApp>>

setHsn ==
    \E v \in TextInputs :
        /\ hsn' = v
        /\ UNCHANGED <<build, file, gstin, taxRate, loading, error, result, requests, notApp>>

setTaxRate ==
    \E v \in NumberInputs :
        /\ taxRate' = v
        /\ UNCHANGED <<build, file, gstin, hsn, loading, error, result, requests, notApp>>

\* runAudit of frontend/src/App.jsx, up to the await of fetch
runAudit_AppJsx ==
    /\ build = "App.jsx"
    /\ RunAuditEnabled
    /\ IF file = NULL
       THEN /\ error' = PleaseUpload
            /\ UNCHANGED <<loading, result, requests>>
       ELSE /\ loading' = TRUE
            /\ error' = ""
            /\ requests' = Append(requests, [body |-> formData_AppJsx, stage |-> "fetch"])
            /\ UNCHANGED result
    /\ UNCHANGED <<build, file, gstin, hsn, taxRate, notApp>>

\* runAudit without the guard on file
runAudit_NoFileCheck ==
    /\ build = "part_000"
    /\ RunAuditEnabled
    /\ loading' = TRUE
    /\ error' = ""
    /\ result' = NULL
    /\ requests' = Append(requests, [body |-> formData_part000, stage |-> "fetch"])
    /\ UNCHANGED <<build, file, gstin, hsn, taxRate, notApp>>

\* runAudit of unnamed/part_000, up to the await of fetch
runAudit_part000 ==
    /\ build = "part_000"
    /\ RunAuditEnabled
    /\ IF file = NULL
       THEN /\ error' = PleaseUpload
            /\ UNCHANGED <<loading, result, requests>>
       ELSE /\ loading' = TRUE
            /\ error' = ""
            /\ result' = NULL
            /\ requests' = Append(requests, [body |-> formData_part000, stage |-> "fetch"])
    /\ UNCHANGED <<build, file, gstin, hsn, taxRate, notApp>>

RemoveAt(s, i) == SubSeq(s, 1, i - 1) \o SubSeq(s, i + 1, Len(s))

\* finally { setLoading(false) }: the async call is over
finally(i) ==
    /\ loading' = FALSE
    /\ requests' = RemoveAt(requests, i)

\* fetch resolves; response.ok decides which body read is awaited next
fetchResolved ==
    \E i \in DOMAIN requests, ok \in BOOLEAN :
        /\ requests[i].stage = "fetch"
        /\ requests' = [requests EXCEPT ![i].stage = IF ok THEN "json" ELSE "text"]
        /\ UNCHANGED <<build, file, gstin, hsn, taxRate, loading, error, result, notApp>>

\* fetch rejects (network error): catch, finally
fetchRejected ==
    \E i \in DOMAIN requests, m \in NetworkErrors :
        /\ requests[i].stage = "fetch"
        /\ error' = m
        /\ finally(i)
        /\ UNCHANGED <<build, file, gstin, hsn, taxRate, result, notApp>>

\* response.text() resolves: throw new Error(detail || 'Audit failed')
textResolved ==
    \E i \in DOMAIN requests, detail \in Details :
        /\ requests[i].stage = "text"
        /\ error' = IF detail # "" THEN detail ELSE "Audit failed"
        /\ finally(i)
        /\ UNCHANGED <<build, file, gstin, hsn, taxRate, result, notApp>>

textRejected ==
    \E i \in DOMAIN requests, m \in NetworkErrors :
        /\ requests[i].stage = "text"
        /\ error' = m
        /\ finally(i)
        /\ UNCHANGED <<build, file, gstin, hsn, taxRate, result, notApp>>

\* response.json() resolves: setResult(data)
jsonResolved ==
    \E i \in DOMAIN requests, data \in AuditResponses :
        /\ requests[i].stage = "json"
        /\ result' = data
        /\ finally(i)
        /\ UNCHANGED <<build, file, gstin, hsn, taxRate, error, notApp>>

jsonRejected ==
    \E i \in DOMAIN requests, m \in ParseErrors :
        /\ requests[i].stage = "json"
        /\ error' = m
        /\ finally(i)
        /\ UNCHANGED <<build, file, gstin, hsn, taxRate, result, notApp>>

\* an audit request that fails: every way into the catch block
AuditFailed == fetchRejected \/ textResolved \/ textRejected \/ jsonRejected

AppInit ==
    /\ build \in Builds
    /\ file = NULL
    /\ gstin = <<>>
    /\ hsn = <<>>
    /\ taxRate = <<>>
    /\ loading = FALSE
    /\ error = ""
    /\ result = NULL
    /\ requests = <<>>
    /\ filterCategory = "all"
    /\ expandedCheck = NoCheck
    /\ bundle = NULL
    /\ faults = {}
    /\ results = <<>>
    /\ auditRecord = NULL
    /\ store = <<>>
    /\ appendPc = <<>>
    /\ snapshot = <<>>
    /\ sheetsHidden

AppNext ==
    \/ handleDrop
    \/ onFileChange
    \/ setGstin
    \/ setHsn
    \/ setTaxRate
    \/ runAudit_AppJsx
    \/ runAudit_part000
    \/ fetchResolved
    \/ fetchRejected
    \/ textResolved
    \/ textRejected
    \/ jsonResolved
    \/ jsonRejected

SpecApp == AppInit /\ [][AppNext]_vars

----------------------------------------------------------------------------
(* RiskScorecard *)

\* most checks in a result handed to the scorecard
MaxChecks == 2

CATEGORIES ==
    << "Metadata & Image Integrity",
       "Statutory Validation",
       "Vendor History Analysis",
       "Duplicate Detection",
       "Advanced Analytics" >>

Range(s) == {s[i] : i \in DOMAIN s}

Statuses == {"pass", "warning", "fail", "data_missing"}

\* lists of checks of length k; check_id is the position in the list
ChecksOfLen(k) ==
    { [i \in 1..k |-> [check_id |-> i, category |-> f[i][1], status |-> f[i][2]]] :
        f \in [1..k -> Range(CATEGORIES) \X Statuses] }

CheckLists == UNION {ChecksOfLen(k) : k \in 0..MaxChecks}

\* results rendered by the scorecard: every score, and every list of checks
ScorecardInputs ==
    {[composite_risk_score |-> s, checks |-> <<>>] : s \in 0..100}
        \cup {[composite_risk_score |-> 63, checks |-> c] : c \in CheckLists}

\* a banding that puts 70 in the medium tier
riskClass_StrictHigh(score) ==
    IF score > 70 THEN "high" ELSE IF score >= 40 THEN "medium" ELSE "low"

riskClass(score) ==
    IF score >= 70 THEN "high" ELSE IF score >= 40 THEN "medium" ELSE "low"

\* checks.forEach((c) => { counts[c.status] = (counts[c.status] || 0) + 1 })
RECURSIVE CountStatuses(_, _)
CountStatuses(checks, counts) ==
    IF checks = <<>> THEN counts
    ELSE LET c == Head(checks)
             old == IF c.status \in DOMAIN counts THEN counts[c.status] ELSE 0
         IN  CountStatuses(Tail(checks),
                 [st \in DOMAIN counts \cup {c.status} |->
                     IF st = c.status THEN old + 1 ELSE counts[st]])

\* a filter that collects the matching checks in reverse
RECURSIVE filter_Reversed(_, _)
filter_Reversed(checks, cat) ==
    IF checks = <<>> THEN <<>>
    ELSE IF Head(checks).category = cat
         THEN filter_Reversed(Tail(checks), cat) \o <<Head(checks)>>
         ELSE filter_Reversed(Tail(checks), cat)

\* Array.prototype.filter
RECURSIVE filter(_, _)
filter(checks, cat) ==
    IF checks = <<>> THEN <<>>
    ELSE IF Head(checks).category = cat
         THEN <<Head(checks)>> \o filter(Tail(checks), cat)
         ELSE filter(Tail(checks), cat)

filteredChecks ==
    IF filterCategory = "all" THEN result.checks ELSE filter(result.checks, filterCategory)

statusCounts == CountStatuses(result.checks, <<>>)

\* onClick of the All button
showAll ==
    /\ result # NULL
    /\ filterCategory' = "all"
    /\ UNCHANGED <<result, expandedCheck, notScorecard>>

\* onClick of a category button
setFilterCategory ==
    \E cat \in Range(CATEGORIES) :
        /\ result # NULL
        /\ filterCategory' = cat
        /\ UNCHANGED <<result, expandedCheck, notScorecard>>

\* onClick of a row of the table
setExpandedCheck ==
    \E i \in DOMAIN filteredChecks :
        /\ result # NULL
        /\ expandedCheck' = IF expandedCheck = filteredChecks[i].check_id
                            THEN NoCheck
                            ELSE filteredChecks[i].check_id
        /\ UNCHANGED <<result, filterCategory, notScorecard>>

ScorecardInit ==
    /\ build = "part_000"
    /\ file = NULL
    /\ gstin = <<>>
    /\ hsn = <<>>
    /\ taxRate = <<>>
    /\ loading = FALSE
    /\ error = ""
    /\ requests = <<>>
    /\ result \in ScorecardInputs
    /\ filterCategory = "all"
    /\ expandedCheck = NoCheck
    /\ bundle = NULL
    /\ faults = {}
    /\ results = <<>>
    /\ auditRecord = NULL
    /\ store = <<>>
    /\ appendPc = <<>>
    /\ snapshot = <<>>
    /\ sheetsHidden

ScorecardNext ==
    \/ showAll
    \/ setFilterCategory
    \/ setExpandedCheck

SpecScorecard == ScorecardInit /\ [][ScorecardNext]_vars

----------------------------------------------------------------------------
(* Audit engine: Control Registry, Audit Orchestrator, Composite Scorer *)

\* an optional field of the Evidence Bundle that was not supplied
Absent == "absent"

\* controls per category: 1.1-1.4, 2.1-2.7, 3.1-3.5, 4.1-4.5, 5.1-5.5
ControlsPerCategory == <<4, 7, 5, 5, 5>>

RECURSIVE RegistryFrom(_, _)
RegistryFrom(cat, idx) ==
    IF cat > Len(CATEGORIES) THEN <<>>
    ELSE IF idx > ControlsPerCategory[cat] THEN RegistryFrom(cat + 1, 1)
    ELSE <<[check_id |-> <<cat, idx>>, category |-> CATEGORIES[cat]]>> \o RegistryFrom(cat, idx + 1)

\* the ordered catalog of Control Definitions
Registry == RegistryFrom(1, 1)

\* controls with an evaluator; the rest are scaffolds awaiting integrations
Implemented == {<<1, 1>>, <<1, 2>>, <<2, 1>>, <<2, 2>>, <<2, 3>>}

\* Reference Master: category code -> expected tax rate
TaxMaster == [code \in {"9983", "1001"} |-> IF code = "9983" THEN "18" ELSE "5"]

\* raw document bytes, by what the Forensic Analyzer finds in them:
\* metadata absent / clean / carrying an editor tag, and the ELA statistics
Documents ==
    {[kind |-> "pdf"]}
        \cup {[kind |-> "image", metadata |-> md, ela_mean |-> e[1], ela_max |-> e[2]] :
                md \in {"absent", "clean", "editor"},
                e \in {<<12, 60>>, <<13, 10>>, <<12, 61>>}}

\* declared GSTIN, by what the validators find in it
DeclaredGstins == {Absent, "", "27ABCDE1234F1Z5", "27ABCDE1234F1Z0"}

\* the GSTIN whose checksum character matches
GstinChecksumOk(s) == s = "27ABCDE1234F1Z5"

\* the GSTINs of 15 characters in the positional grammar
GstinWellFormed(s) == s \in {"27ABCDE1234F1Z5", "27ABCDE1234F1Z0"}

EvidenceBundles ==
    [document : Documents,
     gstin : DeclaredGstins,
     hsn_or_sac : {Absent, "9983", "0000"},
     claimed_tax_rate : {Absent, "18", "5"}]

validate_gstin(s) ==
    IF GstinWellFormed(s) /\ GstinChecksumOk(s) THEN "pass" ELSE "fail"

\* the PAN segment is characters 3..12 of the GSTIN
validate_pan(s) ==
    IF GstinWellFormed(s) THEN "pass" ELSE "fail"

validate_hsn_or_sac(code, declared_rate) ==
    IF code \notin DOMAIN TaxMaster THEN "data_missing"
    ELSE IF declared_rate = Absent THEN "data_missing"
    ELSE IF TaxMaster[code] = declared_rate THEN "pass" ELSE "fail"

\* Forensic Analyzer, metadata check
metadata_check(doc) ==
    IF doc.kind # "image" THEN "data_missing"
    ELSE IF doc.metadata \in {"absent", "editor"} THEN "warning" ELSE "pass"

ELA_MEAN_THRESHOLD == 12
ELA_MAX_THRESHOLD == 60

\* Forensic Analyzer, Error Level Analysis
ela_check(doc) ==
    IF doc.kind # "image" THEN "data_missing"
    ELSE IF doc.ela_mean > ELA_MEAN_THRESHOLD \/ doc.ela_max > ELA_MAX_THRESHOLD
         THEN "warning" ELSE "pass"

\* the evidence-requirement predicate of a Control Definition
EvidenceAvailable(c, b) ==
    CASE c.check_id \in {<<1, 1>>, <<1, 2>>} -> b.document.kind = "image"
      [] c.check_id \in {<<2, 1>>, <<2, 2>>} -> b.gstin # Absent
      [] c.check_id = <<2, 3>> -> /\ b.hsn_or_sac # Absent
                                  /\ b.hsn_or_sac \in DOMAIN TaxMaster
                                  /\ b.claimed_tax_rate # Absent
      [] OTHER -> FALSE

\* the evaluator of a Control Definition
Evaluate(c, b) ==
    CASE c.check_id = <<1, 1>> -> metadata_check(b.document)
      [] c.check_id = <<1, 2>> -> ela_check(b.document)
      [] c.check_id = <<2, 1>> -> validate_gstin(b.gstin)
      [] c.check_id = <<2, 2>> -> validate_pan(b.gstin)
      [] c.check_id = <<2, 3>> -> validate_hsn_or_sac(b.hsn_or_sac, b.claimed_tax_rate)
      [] OTHER -> "data_missing"

\* an orchestrator that calls the evaluator whatever the predicate says
StatusOf_NoShortCircuit(c, b) ==
    IF c.check_id \in faults THEN "data_missing" ELSE Evaluate(c, b)

\* steps 1-3 of the orchestrator for one control, with the boundary that
\* downgrades an evaluator's error to data_missing
StatusOf(c, b) ==
    IF ~EvidenceAvailable(c, b) THEN "data_missing"
    ELSE IF c.check_id \in faults THEN "data_missing"
    ELSE Evaluate(c, b)

ControlResult(c, b) ==
    [check_id |-> c.check_id, category |-> c.category, status |-> StatusOf(c, b)]

\* penalty of a fail, by category
CategoryPenalty ==
    [cat \in Range(CATEGORIES) |->
        CASE cat = "Metadata & Image Integrity" -> 10
          [] cat = "Statutory Validation" -> 20
          [] cat = "Vendor History Analysis" -> 10
          [] cat = "Duplicate Detection" -> 20
          [] cat = "Advanced Analytics" -> 6]

DATA_MISSING_PENALTY == 3

Penalty(r) ==
    CASE r.status = "fail" -> CategoryPenalty[r.category]
      [] r.status = "warning" -> CategoryPenalty[r.category] \div 2
      [] r.status = "data_missing" -> DATA_MISSING_PENALTY
      [] r.status = "pass" -> 0

RECURSIVE RawTotal(_)
RawTotal(rs) == IF rs = <<>> THEN 0 ELSE Penalty(Head(rs)) + RawTotal(Tail(rs))

\* a scorer that returns the running total as it is
Clamp_Unbounded(x) == x

Clamp(x) == IF x > 100 THEN 100 ELSE IF x < 0 THEN 0 ELSE x

\* alerts: the non-pass results, in registry order
RECURSIVE Alerts(_)
Alerts(rs) ==
    IF rs = <<>> THEN <<>>
    ELSE IF Head(rs).status = "pass" THEN Alerts(Tail(rs))
    ELSE <<Head(rs).check_id>> \o Alerts(Tail(rs))

ComposeRecord(rs) ==
    [composite_risk_score |-> Clamp(RawTotal(rs)), alerts |-> Alerts(rs), checks |-> rs]

\* an orchestrator that ends the run at the first evaluator error
evaluateControl_AbortOnFault ==
    LET c == Registry[Len(results) + 1]
    IN  /\ bundle # NULL
        /\ auditRecord = NULL
        /\ Len(results) < Len(Registry)
        /\ IF EvidenceAvailable(c, bundle) /\ c.check_id \in faults
           THEN /\ auditRecord' = ComposeRecord(results)
                /\ UNCHANGED results
           ELSE /\ results' = Append(results, ControlResult(c, bundle))
                /\ UNCHANGED auditRecord
        /\ UNCHANGED <<bundle, faults, notEngine>>

\* the orchestrator takes the next control of the registry
evaluateControl ==
    LET c == Registry[Len(results) + 1]
    IN  /\ bundle # NULL
        /\ auditRecord = NULL
        /\ Len(results) < Len(Registry)
        /\ results' = Append(results, ControlResult(c, bundle))
        /\ UNCHANGED <<bundle, faults, auditRecord, notEngine>>

\* every control has its result: score, alerts, record
composeRecord ==
    /\ bundle # NULL
    /\ auditRecord = NULL
    /\ Len(results) = Len(Registry)
    /\ auditRecord' = ComposeRecord(results)
    /\ UNCHANGED <<bundle, faults, results, notEngine>>

EngineInit ==
    /\ build = "part_000"
    /\ file = NULL
    /\ gstin = <<>>
    /\ hsn = <<>>
    /\ taxRate = <<>>
    /\ loading = FALSE
    /\ error = ""
    /\ requests = <<>>
    /\ result = NULL
    /\ filterCategory = "all"
    /\ expandedCheck = NoCheck
    /\ bundle \in EvidenceBundles
    /\ faults \in SUBSET Implemented
    /\ results = <<>>
    /\ auditRecord = NULL
    /\ store = <<>>
    /\ appendPc = <<>>
    /\ snapshot = <<>>
    /\ sheetsHidden

EngineNext ==
    \/ evaluateControl
    \/ composeRecord

SpecEngine == EngineInit /\ [][EngineNext]_vars

----------------------------------------------------------------------------
(* History Store: HistoryService over backend/data/audit_history.json *)

\* concurrent audit runs that persist their record
MaxAppends == 3

\* each run's record is its run id; 0 is a record of an earlier run
Runs == 1..MaxAppends

\* HistoryService.read_all(): the whole file, as a list
read_all == store

\* append, first half: records = read_all()
append_read ==
    \E r \in Runs :
        /\ appendPc[r] = "start"
        /\ snapshot' = [snapshot EXCEPT ![r] = read_all]
        /\ appendPc' = [appendPc EXCEPT ![r] = "read"]
        /\ UNCHANGED <<store, notHistory>>

\* append, second half: the list read, plus the record, is written back
append_write ==
    \E r \in Runs :
        /\ appendPc[r] = "read"
        /\ store' = Append(snapshot[r], r)
        /\ appendPc' = [appendPc EXCEPT ![r] = "done"]
        /\ UNCHANGED <<snapshot, notHistory>>

HistoryInit ==
    /\ build = "part_000"
    /\ file = NULL
    /\ gstin = <<>>
    /\ hsn = <<>>
    /\ taxRate = <<>>
    /\ loading = FALSE
    /\ error = ""
    /\ requests = <<>>
    /\ result = NULL
    /\ filterCategory = "all"
    /\ expandedCheck = NoCheck
    /\ bundle = NULL
    /\ faults = {}
    /\ results = <<>>
    /\ auditRecord = NULL
    /\ store \in {<<>>, <<0>>}
    /\ appendPc = [r \in Runs |-> "start"]
    /\ snapshot = [r \in Runs |-> <<>>]
    /\ sheetsHidden

HistoryNext ==
    \/ append_read
    \/ append_write

SpecHistory == HistoryInit /\ [][HistoryNext]_vars

----------------------------------------------------------------------------
(* GoogleSheetsPanel *)

\* strings are sequences of characters
Str_Error == <<"E", "r", "r", "o", "r">>

Str_ErrorColon == <<"E", "r", "r", "o", "r", ":", " ">>

\* 'Please enter a Spreadsheet ID.'
Str_PleaseEnter ==
    <<"P", "l", "e", "a", "s", "e", " ", "e", "n", "t", "e", "r", " ", "a", " ", "S", "p", "r", "e", "a", "d", "s", "h", "e", "e", "t", " ", "I", "D", ".">>

\* 'Google Sheets connected successfully.'
Str_Connected ==
    <<"G", "o", "o", "g", "l", "e", " ", "S", "h", "e", "e", "t", "s", " ", "c", "o", "n", "n", "e", "c", "t", "e", "d", " ", "s", "u", "c", "c", "e", "s", "s", "f", "u", "l", "l", "y", ".">>

\* 'Configuration failed.'
Str_ConfigurationFailed ==
    <<"C", "o", "n", "f", "i", "g", "u", "r", "a", "t", "i", "o", "n", " ", "f", "a", "i", "l", "e", "d", ".">>

\* 'Export failed.'
Str_ExportFailed == <<"E", "x", "p", "o", "r", "t", " ", "f", "a", "i", "l", "e", "d", ".">>

Str_Exported == <<"E", "x", "p", "o", "r", "t", "e", "d", " ">>

\* ' records to Google Sheets.'
Str_Records ==
    <<" ", "r", "e", "c", "o", "r", "d", "s", " ", "t", "o", " ", "G", "o", "o", "g", "l", "e", " ", "S", "h", "e", "e", "t", "s", ".">>

\* ' insight rows to Google Sheets.'
Str_InsightRows ==
    <<" ", "i", "n", "s", "i", "g", "h", "t", " ", "r", "o", "w", "s", " ", "t", "o", " ", "G", "o", "o", "g", "l", "e", " ", "S", "h", "e", "e", "t", "s", ".">>

\* an absent field of a response body
Undefined == <<>>

\* data.error / data.detail of a failure body: absent, or a text
FailureTexts == {Undefined, <<"N", "o", "t", " ", "f", "o", "u", "n", "d">>}

\* data.rows_written / data.insights_written, as interpolated
WrittenCounts == {<<"0">>, <<"3">>}

\* e.message of a rejected fetch or body read
SheetsNetworkErrors == {<<"F", "a", "i", "l", "e", "d", " ", "t", "o", " ", "f", "e", "t", "c", "h">>}

\* bodies of /sheets/configure
ConfigureResponses ==
    {[success |-> TRUE, error |-> Undefined]}
        \cup {[success |-> FALSE, error |-> t] : t \in FailureTexts}

\* bodies of /sheets/export-history and /sheets/export-insights
ExportResponses ==
    {[written |-> n, detail |-> Undefined] : n \in WrittenCounts}
        \cup {[written |-> Undefined, detail |-> t] : t \in FailureTexts}

\* String.prototype.startsWith
startsWith(s, prefix) ==
    /\ Len(s) >= Len(prefix)
    /\ SubSeq(s, 1, Len(prefix)) = prefix

\* a || b on strings
OrElse(a, b) == IF a # <<>> THEN a ELSE b

\* className of the message paragraph
messageClass(m) == IF startsWith(m, Str_Error) THEN "error" ELSE "success"

\* {!status && ...}: the configuration form is rendered
ConfigShown == status # "true"

\* {status && ...}: the export buttons are rendered
ActionsShown == status = "true"

setSpreadsheetId ==
    \E v \in TextInputs :
        /\ ConfigShown
        /\ spreadsheetId' = v
        /\ UNCHANGED <<status, message, sheetsLoading, statusFetch, sheetsRequests, notSheets>>

\* useEffect: fetch(/sheets/status) resolves, r.json() is awaited
statusFetchResolved ==
    /\ statusFetch = "fetch"
    /\ statusFetch' = "json"
    /\ UNCHANGED <<spreadsheetId, status, message, sheetsLoading, sheetsRequests, notSheets>>

\* useEffect: .then((data) => setStatus(data.configured))
statusJsonResolved ==
    \E configured \in {"true", "false"} :
        /\ statusFetch = "json"
        /\ status' = configured
        /\ statusFetch' = "settled"
        /\ UNCHANGED <<spreadsheetId, message, sheetsLoading, sheetsRequests, notSheets>>

\* useEffect: .catch(() => setStatus(false))
statusRejected ==
    /\ statusFetch \in {"fetch", "json"}
    /\ status' = "false"
    /\ statusFetch' = "settled"
    /\ UNCHANGED <<spreadsheetId, message, sheetsLoading, sheetsRequests, notSheets>>

\* configure, up to the await of fetch
configure ==
    /\ ConfigShown
    /\ ~sheetsLoading
    /\ IF trim(spreadsheetId) = <<>>
       THEN /\ message' = Str_PleaseEnter
            /\ UNCHANGED <<sheetsLoading, sheetsRequests>>
       ELSE /\ sheetsLoading' = TRUE
            /\ message' = <<>>
            /\ sheetsRequests' = Append(sheetsRequests,
                   [op |-> "configure", spreadsheet_id |-> trim(spreadsheetId), stage |-> "fetch"])
    /\ UNCHANGED <<spreadsheetId, status, statusFetch, notSheets>>

\* exportHistory and exportInsights, up to the await of fetch
startExport(op) ==
    /\ ActionsShown
    /\ ~sheetsLoading
    /\ sheetsLoading' = TRUE
    /\ message' = <<>>
    /\ sheetsRequests' = Append(sheetsRequests,
           [op |-> op, spreadsheet_id |-> <<>>, stage |-> "fetch"])
    /\ UNCHANGED <<spreadsheetId, status, statusFetch, notSheets>>

exportHistory == startExport("export-history")

exportInsights == startExport("export-insights")

\* finally { setLoading(false) }
sheetsFinally(i) ==
    /\ sheetsLoading' = FALSE
    /\ sheetsRequests' = RemoveAt(sheetsRequests, i)

\* await fetch(...) resolves; resp.ok is not looked at
sheetsFetchResolved ==
    \E i \in DOMAIN sheetsRequests :
        /\ sheetsRequests[i].stage = "fetch"
        /\ sheetsRequests' = [sheetsRequests EXCEPT ![i].stage = "json"]
        /\ UNCHANGED <<spreadsheetId, status, message, sheetsLoading, statusFetch, notSheets>>

\* await fetch(...) or await resp.json() rejects: catch, finally
sheetsRejected ==
    \E i \in DOMAIN sheetsRequests, m \in SheetsNetworkErrors :
        /\ message' = Str_ErrorColon \o m
        /\ sheetsFinally(i)
        /\ UNCHANGED <<spreadsheetId, status, statusFetch, notSheets>>

\* configure: data = await resp.json()
configureResolved(data) ==
    \E i \in DOMAIN sheetsRequests :
        /\ sheetsRequests[i].op = "configure"
        /\ sheetsRequests[i].stage = "json"
        /\ IF data.success
           THEN /\ status' = "true"
                /\ message' = Str_Connected
           ELSE /\ message' = Str_ErrorColon \o OrElse(data.error, Str_ConfigurationFailed)
                /\ UNCHANGED status
        /\ sheetsFinally(i)
        /\ UNCHANGED <<spreadsheetId, statusFetch, notSheets>>

configureSettled == \E data \in ConfigureResponses : configureResolved(data)

\* exportHistory / exportInsights: data = await resp.json()
exportResolved(data) ==
    \E i \in DOMAIN sheetsRequests :
        /\ sheetsRequests[i].op \in {"export-history", "export-insights"}
        /\ sheetsRequests[i].stage = "json"
        /\ message' =
            IF data.written # Undefined
            THEN Str_Exported \o data.written \o
                    (IF sheetsRequests[i].op = "export-history" THEN Str_Records ELSE Str_InsightRows)
            ELSE Str_ErrorColon \o OrElse(data.detail, Str_ExportFailed)
        /\ sheetsFinally(i)
        /\ UNCHANGED <<spreadsheetId, status, statusFetch, notSheets>>

exportSettled == \E data \in ExportResponses : exportResolved(data)

SheetsInit ==
    /\ build = "part_000"
    /\ file = NULL
    /\ gstin = <<>>
    /\ hsn = <<>>
    /\ taxRate = <<>>
    /\ loading = FALSE
    /\ error = ""
    /\ requests = <<>>
    /\ result = NULL
    /\ filterCategory = "all"
    /\ expandedCheck = NoCheck
    /\ bundle = NULL
    /\ faults = {}
    /\ results = <<>>
    /\ auditRecord = NULL
    /\ store = <<>>
    /\ appendPc = <<>>
    /\ snapshot = <<>>
    /\ spreadsheetId = <<>>
    /\ status = "null"
    /\ message = <<>>
    /\ sheetsLoading = FALSE
    /\ statusFetch = "fetch"
    /\ sheetsRequests = <<>>

SheetsNext ==
    \/ setSpreadsheetId
    \/ statusFetchResolved
    \/ statusJsonResolved
    \/ statusRejected
    \/ configure
    \/ exportHistory
    \/ exportInsights
    \/ sheetsFetchResolved
    \/ sheetsRejected
    \/ configureSettled
    \/ exportSettled

SpecSheets == SheetsInit /\ [][SheetsNext]_vars

----------------------------------------------------------------------------
(* Claims about App *)

RunAuditSends == Len(requests') > Len(requests)

SentBody == requests'[Len(requests')].body

OptionalFields == {<<"gstin", gstin>>, <<"hsn_or_sac", hsn>>, <<"claimed_tax_rate", taxRate>>}

\* C6: whenever runAudit submits the form, each optional field (gstin,
\* hsn_or_sac, claimed_tax_rate) is in the request exactly when its input is
\* non-blank after trimming, and no optional field is sent as an empty string.
C6_BlankOptionalOmitted ==
    [][RunAuditSends =>
        /\ \A f \in OptionalFields : FormDataHas(SentBody, f[1]) <=> (trim(f[2]) # <<>>)
        /\ \A i \in DOMAIN SentBody : SentBody[i].name = "file" \/ SentBody[i].value # <<>>]_vars

RunAuditClick == runAudit_AppJsx \/ runAudit_part000

\* C7: runAudit invoked while no file is selected sends no request, sets the
\* error to 'Please upload a file before auditing.' and leaves loading and the
\* result unchanged.
C7_NoFileNoRequest ==
    [][(file = NULL /\ RunAuditClick) =>
        /\ requests' = requests
        /\ error' = "Please upload a file before auditing."
        /\ loading' = loading
        /\ result' = result]_vars

\* C7 witness: Run Audit was clicked with no file while a scorecard was shown;
\* nothing is in flight and the scorecard is still there.
C7_Witness ==
    /\ file = NULL
    /\ error = "Please upload a file before auditing."
    /\ requests = <<>>
    /\ ~loading
    /\ result # NULL

\* C8: starting an audit clears the previous result before the request is
\* sent, and after any audit request that fails the displayed result is null.
C8_ResultClearedOnNewAudit ==
    [][(RunAuditSends => result' = NULL) /\ (AuditFailed => result' = NULL)]_vars

\* C10: loading is true exactly while an audit request is outstanding, and at
\* most one audit request is outstanding at any time.
C10_LoadingIffOutstanding ==
    /\ Len(requests) <= 1
    /\ loading <=> (requests # <<>>)

\* C10 witness: a request is outstanding, past the fetch and reading the body
\* of a non-OK response, with loading still true.
C10_Witness ==
    /\ loading
    /\ Len(requests) = 1
    /\ requests[1].stage = "text"

----------------------------------------------------------------------------
(* Claims about RiskScorecard *)

\* C4: the band shown for a score s in 0..100 is low when s < 40, medium when
\* 40 <= s <= 69 and high when s >= 70.
C4_RiskBands ==
    LET s == result.composite_risk_score
        band == riskClass(s)
    IN  (result # NULL /\ s \in 0..100) =>
            /\ (s < 40) <=> (band = "low")
            /\ (40 <= s /\ s <= 69) <=> (band = "medium")
            /\ (s >= 70) <=> (band = "high")

\* C4 witness: the lowest score of the high tier is on screen.
C4_Witness ==
    /\ result # NULL
    /\ result.composite_risk_score = 70

RECURSIVE SumOver(_, _)
SumOver(f, S) ==
    IF S = {} THEN 0
    ELSE LET x == CHOOSE y \in S : TRUE IN f[x] + SumOver(f, S \ {x})

\* positions in result.checks of the checks of the selected category
SelectedPositions == {i \in DOMAIN result.checks : result.checks[i].category = filterCategory}

\* C9: with filter 'all' the table shows result.checks as they are; with a
\* category selected it shows exactly the checks of that category, each once
\* and in their order in result.checks; the per-status counts sum to the
\* number of checks whatever the filter.
C9_FilterKeepsOrder ==
    result # NULL =>
        /\ filterCategory = "all" => filteredChecks = result.checks
        /\ filterCategory # "all" =>
            /\ Len(filteredChecks) = Cardinality(SelectedPositions)
            /\ \A i \in SelectedPositions :
                   filteredChecks[Cardinality({j \in SelectedPositions : j <= i})] = result.checks[i]
        /\ SumOver(statusCounts, DOMAIN statusCounts) = Len(result.checks)

\* C9 witness: a category is selected that holds some but not all checks.
C9_Witness ==
    /\ result # NULL
    /\ filterCategory # "all"
    /\ Len(filteredChecks) >= 1
    /\ Len(filteredChecks) < Len(result.checks)

----------------------------------------------------------------------------
(* Claims about the audit engine *)

\* what each implemented control needs from the Evidence Bundle
EvidenceAbsent(id) ==
    CASE id \in {<<1, 1>>, <<1, 2>>} -> bundle.document.kind = "pdf"
      [] id \in {<<2, 1>>, <<2, 2>>} -> bundle.gstin = Absent
      [] id = <<2, 3>> -> \/ bundle.hsn_or_sac \in {Absent, "0000"}
                          \/ bundle.claimed_tax_rate = Absent
      [] OTHER -> TRUE

\* C1: Zero-Inference: every control whose required evidence is absent from
\* the Evidence Bundle has status data_missing in the returned checks, never
\* pass, warning or fail.
C1_ZeroInference ==
    auditRecord # NULL =>
        \A i \in DOMAIN auditRecord.checks :
            EvidenceAbsent(auditRecord.checks[i].check_id)
                => auditRecord.checks[i].status = "data_missing"

\* C1 witness: a run with no GSTIN declared has returned, and the GSTIN
\* control (the fifth of the registry) is data_missing.
C1_Witness ==
    /\ auditRecord # NULL
    /\ bundle.gstin = Absent
    /\ bundle.document.kind = "image"
    /\ auditRecord.checks[5].check_id = <<2, 1>>
    /\ auditRecord.checks[5].status = "data_missing"

\* the control ids 1.1-1.4, 2.1-2.7, 3.1-3.5, 4.1-4.5, 5.1-5.5 in order
ContractIds ==
    << <<1, 1>>, <<1, 2>>, <<1, 3>>, <<1, 4>>,
       <<2, 1>>, <<2, 2>>, <<2, 3>>, <<2, 4>>, <<2, 5>>, <<2, 6>>, <<2, 7>>,
       <<3, 1>>, <<3, 2>>, <<3, 3>>, <<3, 4>>, <<3, 5>>,
       <<4, 1>>, <<4, 2>>, <<4, 3>>, <<4, 4>>, <<4, 5>>,
       <<5, 1>>, <<5, 2>>, <<5, 3>>, <<5, 4>>, <<5, 5>> >>

\* C2: the returned checks list has exactly 26 entries, one per registered
\* control id in registry order, whatever the input and whichever evaluators
\* fail.
C2_TwentySixChecks ==
    auditRecord # NULL =>
        /\ Len(auditRecord.checks) = 26
        /\ \A i \in 1..26 : auditRecord.checks[i].check_id = ContractIds[i]

\* C2 witness: a run has returned in which the evaluator of the GSTIN control
\* was invoked and raised.
C2_Witness ==
    /\ auditRecord # NULL
    /\ bundle.gstin # Absent
    /\ <<2, 1>> \in faults
    /\ Len(auditRecord.checks) = 26

\* C3: composite_risk_score is an integer in 0..100, the sum of the
\* per-status penalties over the control results clamped to that range.
C3_ScoreClamped ==
    auditRecord # NULL =>
        LET raw == RawTotal(auditRecord.checks)
            score == auditRecord.composite_risk_score
        IN  /\ score \in 0..100
            /\ raw <= 100 => score = raw
            /\ raw > 100 => score = 100

\* C3 witness: a run has returned whose raw penalty total exceeds 100.
C3_Witness ==
    /\ auditRecord # NULL
    /\ RawTotal(auditRecord.checks) > 100
    /\ auditRecord.composite_risk_score = 100

----------------------------------------------------------------------------
(* Claims about the History Store *)

\* C5: after N concurrent append calls complete, the History Store holds
\* exactly N more records than before: the record of every call, once, next
\* to the records it held.
C5_NoLostAppend ==
    (\A r \in Runs : appendPc[r] = "done") =>
        /\ Cardinality({i \in DOMAIN store : store[i] \in Runs}) = MaxAppends
        /\ \A r \in Runs : \E i \in DOMAIN store : store[i] = r

----------------------------------------------------------------------------
(* Claims about GoogleSheetsPanel *)

\* C11: once configure has succeeded (status set to true) the status stays
\* connected: no later step, and in particular not the settling of the
\* /sheets/status request issued on mount, takes status away from true.
C11_ConnectedStays ==
    [][status = "true" => status' = "true"]_vars

\* an operation that was rejected or failed puts up its message
OperationFailed ==
    \/ configure /\ trim(spreadsheetId) = <<>>
    \/ \E data \in ConfigureResponses : ~data.success /\ configureResolved(data)
    \/ \E data \in ExportResponses : data.written = Undefined /\ exportResolved(data)
    \/ sheetsRejected

\* an operation that succeeded puts up its message
OperationSucceeded ==
    \/ \E data \in ConfigureResponses : data.success /\ configureResolved(data)
    \/ \E data \in ExportResponses : data.written # Undefined /\ exportResolved(data)

\* C12: the message is rendered with the 'success' style only after an
\* operation that succeeded; every message put up by a rejected or failed
\* operation is rendered with the 'error' style.
C12_MessageStyle ==
    [][/\ OperationFailed => messageClass(message') = "error"
       /\ (message' # message /\ message' # <<>> /\ messageClass(message') = "success")
            => OperationSucceeded]_vars

====
